---- MODULE Spec2Model ----
(***************************************************************************)
(* A model of the pythresh thresholders (src/pythresh/thresholds/*.py).    *)
(*                                                                         *)
(* Scores are integers; a normalized score array is kept exactly, as the   *)
(* numerators k[i] of the fractions k[i]/R over one common denominator R   *)
(* (reduced by the gcd of the differences, so [0,..,0,100] is [0,..,0,1]/1).*)
(* Real comparisons of the code are decided exactly by cross-multiplying   *)
(* and squaring; a statistic that numpy computes as 0/0 is NaN here, and   *)
(* every comparison with NaN is FALSE, as in IEEE arithmetic.              *)
(***************************************************************************)
EXTENDS Integers, Sequences, FiniteSets, TLC

VARIABLES objs, rng, pc, ret, pool, ebSeen, frames

vars == <<objs, rng, pc, ret, pool, ebSeen, frames>>

(***************************************************************************)
(* Bounds of the model.                                                    *)
(***************************************************************************)
MaxLen == 3
MaxVal == 2

(***************************************************************************)
(* Arithmetic helpers.                                                     *)
(***************************************************************************)
Abs(a) == IF a < 0 THEN -a ELSE a

RECURSIVE Gcd(_, _)
Gcd(a, b) == IF b = 0 THEN a ELSE Gcd(b, a % b)

RECURSIVE SumSeq(_)
SumSeq(s) == IF s = <<>> THEN 0 ELSE Head(s) + SumSeq(Tail(s))

RECURSIVE SumSq(_)
SumSq(s) == IF s = <<>> THEN 0 ELSE Head(s) * Head(s) + SumSq(Tail(s))

MinSeq(s) == CHOOSE v \in {s[i] : i \in DOMAIN s} : \A j \in DOMAIN s : v <= s[j]

MaxSeq(s) == CHOOSE v \in {s[i] : i \in DOMAIN s} : \A j \in DOMAIN s : v >= s[j]

RECURSIVE GcdSeq(_)
GcdSeq(s) == IF s = <<>> THEN 0 ELSE Gcd(Head(s), GcdSeq(Tail(s)))

\* np.delete(arr, i) for a 1-based index i
Delete(s, i) == [j \in 1..(Len(s) - 1) |-> IF j < i THEN s[j] ELSE s[j + 1]]

\* np.sort: ascending, by insertion
RECURSIVE Insert(_, _)
Insert(v, s) ==
    IF s = <<>> THEN <<v>>
    ELSE IF v <= Head(s) THEN <<v>> \o s
    ELSE <<Head(s)>> \o Insert(v, Tail(s))

RECURSIVE Sort(_)
Sort(s) == IF s = <<>> THEN <<>> ELSE Insert(Head(s), Sort(Tail(s)))

\* n*n*variance of s (np.std uses ddof = 0): n*sum(s^2) - sum(s)^2
VarN2(s) == Len(s) * SumSq(s) - SumSeq(s) * SumSeq(s)

\* twice np.median(s): the middle element doubled, or the sum of the two
\* middle elements
Median2(s) ==
    LET t == Sort(s)
        n == Len(s)
    IN  IF n % 2 = 1 THEN 2 * t[(n + 1) \div 2]
        ELSE t[n \div 2] + t[n \div 2 + 1]

(***************************************************************************)
(* Values of the program.                                                  *)
(***************************************************************************)
\* a real threshold pn/pd + qn/(qd*sqrt(rad)); rational when qn = 0
Real(pn, pd, qn, qd, rad) ==
    [tag |-> "num", pn |-> pn, pd |-> pd, qn |-> qn, qd |-> qd, rad |-> rad]

Rat(pn, pd) == Real(pn, pd, 0, 1, 1)

\* the attribute thresh_ before the first eval, and the value None
Unset == [tag |-> "unset", pn |-> 0, pd |-> 1, qn |-> 0, qd |-> 1, rad |-> 1]

NoneT == [tag |-> "none", pn |-> 0, pd |-> 1, qn |-> 0, qd |-> 1, rad |-> 1]

\* limit = 1.1
Limit11 == Rat(11, 10)

Labels(l) == [kind |-> "labels", labels |-> l, err |-> "-"]

Raise(e) == [kind |-> "error", labels |-> <<>>, err |-> e]

\* what one run of eval leaves behind: the value returned or raised, and
\* the fields it wrote (wrote = FALSE: thresh_ was not assigned)
Outcome(out, wrote, thresh, cap) ==
    [out |-> out, wrote |-> wrote, thresh |-> thresh, cap |-> cap,
     caught |-> FALSE, undef |-> FALSE, aux |-> 0]

\* the same outcome, noting that an exception was caught on the way (caught)
\* and a size the call went through (aux)
Note(o, caught, aux) == [o EXCEPT !.caught = caught, !.aux = aux]

\* the same outcome, noting that a statistic was NaN on the way
Undef(o, undef) == [o EXCEPT !.undef = undef]

(***************************************************************************)
(* thresh_utility: normalize and cut.                                      *)
(***************************************************************************)
IsConstant(x) == \A i, j \in DOMAIN x : x[i] = x[j]

\* check_array(decision, ensure_2d=False): an empty array is rejected
Valid(x) == Len(x) >= 1

\* normalize(x) = (x - min)/(max - min); a zero range (max = min) is the
\* degenerate input, reported by err
normalize(x) ==
    LET lo == MinSeq(x)
        d  == [i \in DOMAIN x |-> x[i] - lo]
        g  == GcdSeq(d)
    IN  IF IsConstant(x) THEN [err |-> TRUE, k |-> <<>>, R |-> 1]
        ELSE [err |-> FALSE, k |-> [i \in DOMAIN x |-> d[i] \div g],
              R |-> MaxSeq(d) \div g]

\* v/R > t for a threshold t
Gt(v, R, t) ==
    LET L == v * t.pd - t.pn * R
    IN  IF t.qn = 0 THEN L > 0
        ELSE L > 0 /\ L * L * t.qd * t.qd * t.rad > t.qn * t.qn * R * R * t.pd * t.pd

\* cut were it to label the boundary value 1 as well
cut_geq(dec, limit) ==
    [i \in DOMAIN dec.k |->
        IF Gt(dec.k[i], dec.R, limit) \/ dec.k[i] * limit.pd = limit.pn * dec.R
        THEN 1 ELSE 0]

\* cut(decision, limit): 1 where decision > limit, else 0
cut(dec, limit) == [i \in DOMAIN dec.k |-> IF Gt(dec.k[i], dec.R, limit) THEN 1 ELSE 0]

\* v/R < t for a rational threshold t
Lt(v, R, t) == v * t.pd < t.pn * R

Count1(l) == Cardinality({i \in DOMAIN l : l[i] = 1})

(***************************************************************************)
(* GESD (gesd.py).                                                         *)
(***************************************************************************)
\* max_outliers = 'native'
Native == -1

\* the value of a statistic that is NaN
NaN == -1

\* _calc_crit(size, 0.05) squared, in 1/10000; NaN when size - 2 <= 0
\* (stats.t.ppf with no degrees of freedom)
calc_crit(size) ==
    CASE size = 3  -> 13324
      [] size = 4  -> 21941
      [] size = 5  -> 29414
      [] size = 6  -> 35613
      [] size = 7  -> 40803
      [] size = 8  -> 45226
      [] size = 9  -> 49062
      [] size = 10 -> 52439
      [] size = 11 -> 55448
      [] OTHER     -> NaN

\* np.argmax(dev), dev = |y - mean|: the indices np.argmax can return.  It
\* returns the first index of the largest float; deviations that are equal
\* as reals may differ in their last bit as floats, so every index of the
\* largest deviation is possible
ArgMaxDev(y) ==
    LET n == Len(y)
        S == SumSeq(y)
        dev == [i \in DOMAIN y |-> Abs(n * y[i] - S)]
    IN  {i \in DOMAIN y : \A j \in DOMAIN y : dev[j] <= dev[i]}

\* _grubbs_stat(y) when np.argmax returns i: Gcal^2 = num/den (NaN when
\* den = 0, that is std = 0) and max_ind
grubbs_stat(y, i) ==
    LET d == Len(y) * y[i] - SumSeq(y)
    IN  [num |-> d * d, den |-> VarN2(y), ind |-> i]

\* Gs > Gc
GsExceeds(g, crit) == crit # NaN /\ g.den > 0 /\ g.num * 10000 > crit * g.den

\* one iteration of the for loop of GESD.eval: the limit after it
GESD_step(arr, R, limit, i) ==
    IF GsExceeds(grubbs_stat(arr, i), calc_crit(Len(arr))) /\ Lt(arr[i], R, limit)
    THEN Rat(arr[i], R)
    ELSE limit

\* the for loop of GESD.eval, todo iterations left: the results it can end
\* with; on an emptied array _calc_crit divides by 2*size = 0 (gesd.py line
\* 90) and raises ZeroDivisionError
RECURSIVE GESD_loop(_, _, _, _)
GESD_loop(arr, R, limit, todo) ==
    IF todo <= 0 THEN {[ok |-> TRUE, limit |-> limit]}
    ELSE IF arr = <<>> THEN {[ok |-> FALSE, limit |-> limit]}
    ELSE UNION {GESD_loop(Delete(arr, i), R, GESD_step(arr, R, limit, i), todo - 1) :
                   i \in ArgMaxDev(arr)}

\* self.max_outliers after the 'native' test of GESD.eval
GESD_cap(mo, n) == IF mo = Native THEN n \div 2 ELSE mo

\* GESD.eval were the 'native' test made ahead of check_array
GESD_eval_capfirst(mo, x) ==
    LET cap == GESD_cap(mo, Len(x))
    IN  IF ~Valid(x) THEN {Outcome(Raise("ValueError"), FALSE, Unset, cap)}
        ELSE LET dec == normalize(x)
             IN  IF dec.err
                 THEN {Outcome(Raise("DegenerateInputError"), FALSE, Unset, cap)}
                 ELSE {IF r.ok THEN Outcome(Labels(cut(dec, r.limit)), TRUE, r.limit, cap)
                       ELSE Outcome(Raise("ZeroDivisionError"), FALSE, Unset, cap) :
                          r \in GESD_loop(dec.k, dec.R, Limit11, cap)}

\* GESD.eval on an instance whose max_outliers field holds mo: its outcomes
GESD_eval(mo, x) ==
    IF ~Valid(x) THEN {Outcome(Raise("ValueError"), FALSE, Unset, mo)}
    ELSE LET dec == normalize(x)
             cap == GESD_cap(mo, Len(x))
         IN  IF dec.err
             THEN {Outcome(Raise("DegenerateInputError"), FALSE, Unset, mo)}
             ELSE {IF r.ok THEN Outcome(Labels(cut(dec, r.limit)), TRUE, r.limit, cap)
                   ELSE Outcome(Raise("ZeroDivisionError"), FALSE, Unset, cap) :
                      r \in GESD_loop(dec.k, dec.R, Limit11, cap)}

(***************************************************************************)
(* MTT (mtt.py).                                                           *)
(***************************************************************************)
\* thres^2 of MTT.eval for alpha = 0.99, in 1/10000; NaN when n - 2 <= 0
Tau(n) ==
    CASE n = 3  -> 13320
      [] n = 4  -> 21609
      [] n = 5  -> 27935
      [] n = 6  -> 32428
      [] n = 7  -> 35675
      [] n = 8  -> 38102
      [] n = 9  -> 39976
      [] n = 10 -> 41462
      [] n = 11 -> 42669
      [] OTHER  -> NaN

\* delta > thres were a NaN thres to compare as 0
MTT_rejects_nonan(arr) ==
    LET n == Len(arr)
        d == n * arr[n] - SumSeq(arr)
        tau == IF Tau(n) = NaN THEN 0 ELSE Tau(n)
    IN  VarN2(arr) > 0 /\ d * d * 10000 > tau * VarN2(arr)

\* delta > thres for the sorted arr: delta^2 = (n*arr[-1] - sum)^2 / VarN2
MTT_rejects(arr) ==
    LET n == Len(arr)
        d == n * arr[n] - SumSeq(arr)
    IN  Tau(n) # NaN /\ VarN2(arr) > 0 /\ d * d * 10000 > Tau(n) * VarN2(arr)

\* limit = arr[-1] were it to take the largest element that stays
MTT_limit_kept(arr, R) == Rat(arr[Len(arr) - 1], R)

\* limit = arr[-1], for the sorted arr
MTT_limit(arr, R) == Rat(arr[Len(arr)], R)

\* thres is NaN (t.ppf with df <= 0) or delta is (arr.std() = 0)
MTT_undefined(arr) == Tau(Len(arr)) = NaN \/ VarN2(arr) = 0

\* the while loop of MTT.eval; undef: it is left on a NaN comparison
RECURSIVE MTT_loop(_, _, _)
MTT_loop(arr, R, limit) ==
    IF arr = <<>> THEN [ok |-> FALSE, limit |-> limit, undef |-> FALSE]
    ELSE IF MTT_rejects(arr)
         THEN MTT_loop(Delete(arr, Len(arr)), R, MTT_limit(arr, R))
         ELSE [ok |-> TRUE, limit |-> limit, undef |-> MTT_undefined(arr)]

MTT_eval(x) ==
    IF ~Valid(x) THEN {Outcome(Raise("ValueError"), FALSE, Unset, Native)}
    ELSE LET dec == normalize(x)
             r   == MTT_loop(Sort(dec.k), dec.R, Limit11)
         IN  IF dec.err THEN {Outcome(Raise("DegenerateInputError"), FALSE, Unset, Native)}
             ELSE IF ~r.ok THEN {Outcome(Raise("IndexError"), FALSE, Unset, Native)}
             ELSE {Undef(Outcome(Labels(cut(dec, r.limit)), TRUE, r.limit, Native), r.undef)}

(***************************************************************************)
(* MAD (mad.py).                                                           *)
(***************************************************************************)
\* mean + median_abs_deviation(decision, scale=std):
\*   S/(n*R) + (Q/(4*R)) / (sqrt(VarN2)/(n*R)),  Q/2 = median |2k - 2med|
MAD_limit(dec) ==
    LET n  == Len(dec.k)
        M2 == Median2(dec.k)
        Q  == Median2([i \in DOMAIN dec.k |-> Abs(2 * dec.k[i] - M2)])
    IN  Real(SumSeq(dec.k), n * dec.R, n * Q, 4, VarN2(dec.k))

\* a threshold that is NaN
NanT == [tag |-> "nan", pn |-> 0, pd |-> 1, qn |-> 0, qd |-> 1, rad |-> 1]

\* MAD.eval were the zero range of a constant array divided through: every
\* score NaN, the limit NaN, and no score above it
MAD_eval_nan(x) ==
    IF ~Valid(x) THEN {Outcome(Raise("ValueError"), FALSE, Unset, Native)}
    ELSE LET dec == normalize(x)
         IN  IF dec.err THEN {Outcome(Labels([i \in DOMAIN x |-> 0]), TRUE, NanT, Native)}
             ELSE {Outcome(Labels(cut(dec, MAD_limit(dec))), TRUE, MAD_limit(dec), Native)}

MAD_eval(x) ==
    IF ~Valid(x) THEN {Outcome(Raise("ValueError"), FALSE, Unset, Native)}
    ELSE LET dec == normalize(x)
         IN  IF dec.err THEN {Outcome(Raise("DegenerateInputError"), FALSE, Unset, Native)}
             ELSE {Outcome(Labels(cut(dec, MAD_limit(dec))), TRUE, MAD_limit(dec), Native)}

(***************************************************************************)
(* CHAU (chau.py).  Probabilities are kept in 1/10000; erfc is read from   *)
(* its table at steps of 0.1 and interpolated linearly (within 0.003 of    *)
(* scipy.special.erfc).                                                    *)
(***************************************************************************)
\* floor(sqrt(v)) by bisection over lo..hi
RECURSIVE IsqrtIn(_, _, _)
IsqrtIn(v, lo, hi) ==
    IF lo >= hi THEN lo
    ELSE LET mid == (lo + hi + 1) \div 2
         IN  IF mid * mid <= v THEN IsqrtIn(v, mid, hi) ELSE IsqrtIn(v, lo, mid - 1)

Isqrt(v) == IsqrtIn(v, 0, 46340)

ErfcTable ==
    <<10000, 8875, 7773, 6714, 5716, 4795, 3961, 3222, 2579, 2031,
      1573, 1198, 897, 660, 477, 339, 237, 162, 109, 72,
      47, 30, 19, 11, 7, 4, 2, 1, 1, 0, 0>>

\* erfc(z) in 1/10000 for z given in 1/1000
erfc(z) ==
    LET i == z \div 100
    IN  IF i >= 29 THEN 0
        ELSE ErfcTable[i + 1]
             - ((ErfcTable[i + 1] - ErfcTable[i + 2]) * (z - 100 * i)) \div 100

\* criterion = 1/abs(stats.norm.ppf(1/(4n))) in 1/10000
criterion(n) ==
    CASE n = 1  -> 14826
      [] n = 2  -> 8693
      [] n = 3  -> 7231
      [] n = 4  -> 6518
      [] n = 5  -> 6080
      [] n = 6  -> 5775
      [] n = 7  -> 5547
      [] n = 8  -> 5368
      [] n = 9  -> 5223
      [] n = 10 -> 5102
      [] OTHER  -> 4999

\* (|decision[i] - self.method(decision)| / decision.std())^2 as num/den:
\* the center is the mean S/(nR), the median M2/(2R), or the geometric mean,
\* which is 0 for an array that holds a 0, as every normalized array does
CHAU_z2(method, k, i) ==
    LET n == Len(k)
    IN  CASE method = "mean" ->
               [num |-> (n * k[i] - SumSeq(k)) * (n * k[i] - SumSeq(k)),
                den |-> VarN2(k)]
          [] method = "median" ->
               [num |-> n * n * (2 * k[i] - Median2(k)) * (2 * k[i] - Median2(k)),
                den |-> 4 * VarN2(k)]
          [] OTHER ->
               [num |-> n * n * k[i] * k[i], den |-> VarN2(k)]

\* prob = erfc(np.abs(decision - center)/decision.std()), in 1/10000
CHAU_prob(method, dec) ==
    [k |-> [i \in DOMAIN dec.k |->
               LET z2 == CHAU_z2(method, dec.k, i)
               IN  erfc(Isqrt((1000000 * z2.num) \div z2.den))],
     R |-> 10000]

\* criterion * (1 - np.min(prob))/np.max(prob)
CHAU_thresh(n, prob) ==
    Rat((criterion(n) * (10000 - MinSeq(prob.k))) \div MaxSeq(prob.k), 10000)

\* the value CHAU.eval returns
CHAU_labels(n, prob) == cut(prob, Rat(criterion(n), 10000))

CHAU_eval(method, x) ==
    IF ~Valid(x) THEN {Outcome(Raise("ValueError"), FALSE, Unset, Native)}
    ELSE LET dec  == normalize(x)
             prob == CHAU_prob(method, dec)
         IN  IF dec.err THEN {Outcome(Raise("DegenerateInputError"), FALSE, Unset, Native)}
             ELSE {Outcome(Labels(CHAU_labels(Len(x), prob)), TRUE,
                           CHAU_thresh(Len(x), prob), Native)}

(***************************************************************************)
(* Results of library routines (scipy, sklearn, pyclustering) are not      *)
(* computed: a routine returns any value of its result type, within the    *)
(* bounds below, or raises.                                                 *)
(***************************************************************************)
\* reals a library routine returns: j/Grid for j in -1..Grid+1
Grid == 2

LibReals == {Rat(j, Grid) : j \in (0 - 1)..(Grid + 1)}

\* the arrays a client passes to the procedures built on library routines
OpqLen == 3
OpqVal == 1

\* the arrays of length 1..L over 0..V
Arrays(L, V) == UNION {[1..n -> 0..V] : n \in 1..L}

\* <<>> is rejected by check_array
OpqPool == Arrays(OpqLen, OpqVal) \cup {<<>>}

(***************************************************************************)
(* AUCP (aucp.py).                                                         *)
(***************************************************************************)
\* gen_kde(decision, 0, 1, m)[0]: a density over m grid points, not flat,
\* each point taken at the lowest or the highest value of the curve
KdeCurves == [m \in 1..(2 * OpqLen) |->
                 {c \in [1..m -> {0, 1}] : ~IsConstant(c)}]

\* auc(dat_range[i:], val[i:]) times 2*R*(m-1), for the grid linspace(0,1,m)
\* and val = k/R: the trapezoids from grid point i on
RECURSIVE auc(_, _)
auc(k, i) == IF i >= Len(k) THEN 0 ELSE k[i] + k[i + 1] + auc(k, i + 1)

\* perc = mean + abs(mean - median), times 2*n*R
AUCP_perc(dec) ==
    LET n == Len(dec.k)
    IN  2 * SumSeq(dec.k) + Abs(2 * SumSeq(dec.k) - n * Median2(dec.k))

\* the scan of AUCP.eval from grid point i (1-based) on: the limit it ends
\* with; sklearn's auc raises ValueError when given fewer than 2 points
RECURSIVE AUCP_scan(_, _, _)
AUCP_scan(dec, val, i) ==
    LET m == Len(val.k)
    IN  IF i > m THEN [ok |-> TRUE, limit |-> Rat(1, 1)]
        ELSE IF i = m THEN [ok |-> FALSE, limit |-> Rat(1, 1)]
        ELSE IF auc(val.k, i) * 2 * Len(dec.k) * dec.R < AUCP_perc(dec) * auc(val.k, 1)
             THEN [ok |-> TRUE, limit |-> Rat(i - 1, m - 1)]
             ELSE AUCP_scan(dec, val, i + 1)

AUCP_eval(x) ==
    IF ~Valid(x) THEN {Outcome(Raise("ValueError"), FALSE, Unset, Native)}
    ELSE LET dec == normalize(x)
         IN  IF dec.err THEN {Outcome(Raise("DegenerateInputError"), FALSE, Unset, Native)}
             ELSE {LET r == AUCP_scan(dec, normalize(c), 1)
                   IN  IF r.ok
                       THEN Outcome(Labels(cut(dec, r.limit)), TRUE, r.limit, Native)
                       ELSE Outcome(Raise("ValueError"), FALSE, Unset, Native) :
                      c \in KdeCurves[2 * Len(x)]}

\* AUCP.eval over the arrays passed to it, computed once
AUCP_evals == {<<x, AUCP_eval(x)>> : x \in OpqPool}

(***************************************************************************)
(* FWFM (fwfm.py), MOLL (moll.py), FILTER (filter.py).                     *)
(***************************************************************************)
\* the limits were peak_widths to return a signed width
FWFM_limits_signed(n) == {Limit11} \cup LibReals

\* limit = base_width[0]/len(val) if len(base_width) > 0 else 1.1, for the
\* width peak_widths returns, 0 <= width <= len(val)
FWFM_limits(n) == {Limit11} \cup {Rat(j, Grid) : j \in 0..Grid}

\* FWFM.eval; dscores_ is assigned before the density is built
FWFM_eval(x) ==
    IF ~Valid(x) THEN {Outcome(Raise("ValueError"), FALSE, Unset, Native)}
    ELSE LET dec == normalize(x)
         IN  IF dec.err THEN {Outcome(Raise("DegenerateInputError"), FALSE, Unset, Native)}
             ELSE {Outcome(Labels(cut(dec, l)), TRUE, l, Native) : l \in FWFM_limits(Len(x))}

\* 1 - np.max(self._mollifier(dat_range, np.sort(decision)))
MOLL_limits == LibReals

MOLL_eval(x) ==
    IF ~Valid(x) THEN {Outcome(Raise("ValueError"), FALSE, Unset, Native)}
    ELSE LET dec == normalize(x)
         IN  IF dec.err THEN {Outcome(Raise("DegenerateInputError"), FALSE, Unset, Native)}
             ELSE {Outcome(Labels(cut(dec, l)), TRUE, l, Native) : l \in MOLL_limits}

FilterMethods ==
    {"gaussian", "savgol", "hilbert", "wiener", "medfilt", "decimate",
     "detrend", "resample"}

\* the lengths of the curve the filter returns for n scores: hilbert keeps
\* N = round(sig) points, decimate every q-th, resample round(sqrt(n))
FilterLens(method, n) ==
    IF method \in {"hilbert", "decimate", "resample"} THEN 1..(n + 1) ELSE {n}

\* self.method_funcs[method](decision, sig): the filter raises, or returns
\* a curve, of which eval uses np.max
FILTER_curves(method, n) ==
    {[ok |-> FALSE, len |-> 0, max |-> Unset]}
    \cup {[ok |-> TRUE, len |-> m, max |-> l] : m \in FilterLens(method, n), l \in LibReals}

FILTER_eval(method, x) ==
    IF ~Valid(x) THEN {Outcome(Raise("ValueError"), FALSE, Unset, Native)}
    ELSE LET dec == normalize(x)
         IN  IF dec.err THEN {Outcome(Raise("DegenerateInputError"), FALSE, Unset, Native)}
             ELSE {IF f.ok THEN Note(Outcome(Labels(cut(dec, f.max)), TRUE, f.max, Native),
                                     FALSE, f.len)
                   ELSE Outcome(Raise("ValueError"), FALSE, Unset, Native) :
                      f \in FILTER_curves(method, Len(x))}

(***************************************************************************)
(* CLUST (clust.py).                                                       *)
(***************************************************************************)
\* clusters a backend returns at most
MaxClusters == 2

PyclustMethods ==
    {"agg", "bang", "bsas", "dbscan", "ema", "mbsas", "optics", "somsc", "xmeans"}

SklearnMethods == {"birch", "kmeans", "spec"}

ClustMethods == PyclustMethods \cup SklearnMethods \cup {"bgm", "mshift"}

\* KMeans(n_clusters=2) and SpectralClustering(n_clusters=2) are built
\* without random_state
UsesGlobalRng(method) == method \in {"kmeans", "spec"}

\* Flip if outliers were clustered
Flip(labels) ==
    IF Count1(labels) > (Len(labels) + 1) \div 2
    THEN [i \in DOMAIN labels |-> 1 - labels[i]]
    ELSE labels

\* cl.get_clusters(): a list of at most MaxClusters disjoint index lists
ClusterLists == [n \in 1..OpqLen |->
    UNION {{c \in [1..m -> (SUBSET (1..n)) \ {{}}] :
               \A a, b \in 1..m : a # b => c[a] \cap c[b] = {}} :
           m \in 0..MaxClusters}]

\* np.squeeze(np.array(clusters, dtype=object)) and the indices eval zeroes:
\* lists of one length make a rectangular array, which indexes every
\* clustered point; lists of different lengths make an array of lists, of
\* which the first is taken; no list, or one list of one index, leaves
\* nothing to subscript
Pred(c) ==
    IF Len(c) = 0 THEN [ok |-> FALSE, idx |-> {}]
    ELSE IF \A a \in DOMAIN c : Cardinality(c[a]) = Cardinality(c[1])
         THEN IF Len(c) = 1 /\ Cardinality(c[1]) = 1
              THEN [ok |-> FALSE, idx |-> {}]
              ELSE [ok |-> TRUE, idx |-> UNION {c[a] : a \in DOMAIN c}]
         ELSE [ok |-> TRUE, idx |-> c[1]]

pyclust_eval(n) ==
    {Outcome(Raise("BackendError"), FALSE, Unset, Native)}
    \cup {LET pred == Pred(c)
          IN  IF pred.ok
              THEN Note(Outcome(Labels(Flip([i \in 1..n |-> IF i \in pred.idx THEN 0 ELSE 1])),
                                TRUE, NoneT, Native), FALSE, Len(c))
              ELSE Outcome(Raise("IndexError"), FALSE, Unset, Native) :
             c \in ClusterLists[n]}

\* cl.labels_ of a two-cluster sklearn backend; _BGM_clust has the same body
\* over cl.predict(decision)
sklearn_eval(n) ==
    {Outcome(Raise("BackendError"), FALSE, Unset, Native)}
    \cup {Note(Outcome(Labels(Flip(l)), TRUE, NoneT, Native), FALSE, 2) :
             l \in [1..n -> {0, 1}]}

\* MeanShift labels: every label 0..c-1 is used
MeanShiftLabels == [n \in 1..OpqLen |->
    {l \in [1..n -> 0..(MaxClusters - 1)] :
        \A c \in 0..(MaxClusters - 1) :
            (\E i \in 1..n : l[i] = c) => \A d \in 0..c : \E j \in 1..n : l[j] = d}]

\* np.bincount(lbls).argmax(): the smallest of the most frequent labels
Mode(l) ==
    LET cnt(c) == Cardinality({i \in DOMAIN l : l[i] = c})
    IN  CHOOSE c \in 0..(MaxClusters - 1) :
            /\ \A d \in 0..(MaxClusters - 1) : cnt(d) <= cnt(c)
            /\ \A d \in 0..(c - 1) : cnt(d) < cnt(c)

\* _MSHIFT_clust: a ValueError of estimate_bandwidth(decision, quantile=q)
\* is caught and the bandwidth estimated with the default quantile, whose
\* own failure, like MeanShift's, is not caught
MSHIFT_clust(n) ==
    {Note(Outcome(Raise("ValueError"), FALSE, Unset, Native), TRUE, 0),
     Outcome(Raise("BackendError"), FALSE, Unset, Native)}
    \cup {Note(Outcome(Labels([i \in 1..n |-> IF l[i] = Mode(l) THEN 0 ELSE 1]),
                       TRUE, NoneT, Native), caught, Cardinality({l[i] : i \in 1..n})) :
             l \in MeanShiftLabels[n], caught \in BOOLEAN}

CLUST_eval(method, x) ==
    IF ~Valid(x) THEN {Outcome(Raise("ValueError"), FALSE, Unset, Native)}
    ELSE LET dec == normalize(x)
         IN  IF dec.err THEN {Outcome(Raise("DegenerateInputError"), FALSE, Unset, Native)}
             ELSE IF method \in PyclustMethods THEN pyclust_eval(Len(x))
             ELSE IF method = "mshift" THEN MSHIFT_clust(Len(x))
             ELSE sklearn_eval(Len(x))

(***************************************************************************)
(* META (meta.py).                                                         *)
(***************************************************************************)
\* the groups the stored model is asked about (range(380) in the source)
NGroups == 2

\* model.predict(df) for one group: a label per row, rows of one score alike
Predictions(dec) ==
    {[i \in DOMAIN dec.k |-> p[dec.k[i]]] : p \in [{dec.k[i] : i \in DOMAIN dec.k} -> {0, 1}]}

\* (outlier_ratio < 0.5) & (outlier_ratio > 0)
Retained(labels) == 0 < Count1(labels) /\ 2 * Count1(labels) < Len(labels)

\* stats.mode(contam, axis=0): per column the smallest most frequent label
ModeAxis0(contam, n) ==
    [i \in 1..n |->
        IF 2 * Cardinality({g \in DOMAIN contam : contam[g][i] = 1}) > Len(contam)
        THEN 1 ELSE 0]

\* the retained rows of a sequence of predictions, in order
RECURSIVE Contam(_)
Contam(preds) ==
    IF preds = <<>> THEN <<>>
    ELSE IF Retained(Head(preds)) THEN <<Head(preds)>> \o Contam(Tail(preds))
         ELSE Contam(Tail(preds))

\* what np.squeeze(stats.mode(np.array([]), axis=0)[0]) is: an empty array,
\* or a NaN of no dimension
NoVote == {[kind |-> "labels", labels |-> <<>>, err |-> "-"],
           [kind |-> "nan", labels |-> <<>>, err |-> "-"]}

META_eval(x) ==
    IF ~Valid(x) THEN {Outcome(Raise("ValueError"), FALSE, Unset, Native)}
    ELSE LET dec == normalize(x)
         IN  IF dec.err THEN {Outcome(Raise("DegenerateInputError"), FALSE, Unset, Native)}
             ELSE UNION {LET contam == Contam(preds)
                         IN  IF contam = <<>>
                             THEN {Outcome(o, TRUE, NoneT, Native) : o \in NoVote}
                             ELSE {Note(Outcome(Labels(ModeAxis0(contam, Len(x))),
                                                TRUE, NoneT, Native), FALSE, Len(contam))} :
                            preds \in [1..NGroups -> Predictions(dec)]}

(***************************************************************************)
(* The process-wide generator of numpy.random, and EB (eb.py).             *)
(***************************************************************************)
\* np.random.seed(1234)
EBSeed == 1234

\* draws of np.random.uniform (5000 in the source), points of the
\* eccentricity scan (np.linspace(0, 1, 5000) in the source)
NDraws == 3
NEcc == 4

\* the first values of MT19937 under seed 1234 and under seed 0, in 1/1000
Stream1234 == <<192, 622, 438, 785, 780, 273, 276, 802>>
Stream0 == <<549, 715, 603, 545, 424, 646, 438, 892>>

StreamLen == Len(Stream1234)

Stream(seed) == IF seed = EBSeed THEN Stream1234 ELSE Stream0

\* np.random.seed(s)
Seeded(s) == [seed |-> s, pos |-> 0]

\* np.random.uniform(0, 1, m) in state g: the values drawn, and the state
\* after; past the tabulated values the position is no longer counted
Uniform(g, m) ==
    [vals |-> [i \in 1..m |-> Stream(g.seed)[((g.pos + i - 1) % StreamLen) + 1]],
     next |-> [g EXCEPT !.pos = IF g.pos + m < StreamLen THEN g.pos + m ELSE StreamLen]]

\* a*(1-e) with a = 1/(1+e), for e = num/den
Ecc(num, den) == Rat(den - num, den + num)

\* the inlier count were a score equal to the limit to count as an outlier
Inliers_geq(dec, limit) == Len(dec.k) - Count1(cut_geq(dec, limit))

\* len(decision) - np.sum(cut(decision, limit))
Inliers(dec, limit) == Len(dec.k) - Count1(cut(dec, limit))

\* np.round(np.median(counts)): halves go to the even neighbour
RoundMedian(counts) ==
    LET m2 == Median2(counts)
        f == m2 \div 2
    IN  IF m2 % 2 = 0 THEN f ELSE IF f % 2 = 0 THEN f ELSE f + 1

\* the scan were a candidate as close as the kept one to replace it
RECURSIVE EB_scan_last(_, _, _, _, _)
EB_scan_last(dec, med, close, limit, i) ==
    IF i > NEcc - 1 THEN limit
    ELSE LET count == Inliers(dec, Ecc(i, NEcc - 1))
         IN  IF Abs(med - count) <= Abs(med - close)
             THEN EB_scan_last(dec, med, count, Ecc(i, NEcc - 1), i + 1)
             ELSE EB_scan_last(dec, med, close, limit, i + 1)

\* the scan over ec[i], i = 0..NEcc-1 (ec[i] = i/(NEcc-1)); limit is bound
\* by the first improvement only
RECURSIVE EB_scan(_, _, _, _, _)
EB_scan(dec, med, close, limit, i) ==
    IF i > NEcc - 1 THEN limit
    ELSE LET count == Inliers(dec, Ecc(i, NEcc - 1))
         IN  IF Abs(med - count) < Abs(med - close)
             THEN EB_scan(dec, med, count, Ecc(i, NEcc - 1), i + 1)
             ELSE EB_scan(dec, med, close, limit, i + 1)

\* EB.eval past normalize, on the draws rnd
EB_fit(dec, rnd) ==
    LET counts == [i \in DOMAIN rnd |-> Inliers(dec, Ecc(rnd[i], 1000))]
        limit == EB_scan(dec, RoundMedian(counts), 0, Unset, 0)
    IN  IF limit = Unset
        THEN Outcome(Raise("UnboundLocalError"), FALSE, Unset, Native)
        ELSE Outcome(Labels(cut(dec, limit)), TRUE, limit, Native)

\* EB.eval were it to draw without seeding the generator
EB_eval_unseeded(g, x) ==
    IF ~Valid(x) THEN [o |-> Outcome(Raise("ValueError"), FALSE, Unset, Native), g |-> g]
    ELSE LET dec == normalize(x)
         IN  IF dec.err
             THEN [o |-> Outcome(Raise("DegenerateInputError"), FALSE, Unset, Native), g |-> g]
             ELSE LET u == Uniform(g, NDraws)
                  IN  [o |-> EB_fit(dec, u.vals), g |-> u.next]

\* EB.eval in generator state g: the outcome, and the generator state after
EB_eval(g, x) ==
    IF ~Valid(x) THEN [o |-> Outcome(Raise("ValueError"), FALSE, Unset, Native), g |-> g]
    ELSE LET dec == normalize(x)
         IN  IF dec.err
             THEN [o |-> Outcome(Raise("DegenerateInputError"), FALSE, Unset, Native), g |-> g]
             ELSE LET u == Uniform(Seeded(EBSeed), NDraws)
                  IN  [o |-> EB_fit(dec, u.vals), g |-> u.next]

(***************************************************************************)
(* Arrays as objects.  A heap is the sequence of the arrays that exist;    *)
(* a reference is an index into it.  The caller's array is reference 1.    *)
(* Each statement of eval that handles an array either returns a new one   *)
(* or writes into the one it was given.                                    *)
(***************************************************************************)
\* an array as the caller built it, and an array holding the scores k/R
Raw(x) == [scaled |-> FALSE, k |-> x, R |-> 1]

Scaled(c) ==
    LET n == normalize(c.k)
    IN  [scaled |-> TRUE, k |-> n.k, R |-> n.R]

\* normalize were it to rescale the array it is given in place
normalize_inplace(h, r) == [h |-> [h EXCEPT ![r] = Scaled(@)], r |-> r]

\* check_array(decision, ensure_2d=False): the array itself when it needs no
\* conversion, else a converted copy
check_array(h, r) ==
    {[h |-> h, r |-> r], [h |-> Append(h, h[r]), r |-> Len(h) + 1]}

\* decision = normalize(decision): the result is a new array
normalize_new(h, r) == [h |-> Append(h, Scaled(h[r])), r |-> Len(h) + 1]

\* decision.copy(), np.sort(decision), np.delete(arr, i): a new array
np_copy(h, r) == [h |-> Append(h, h[r]), r |-> Len(h) + 1]

\* the caller's array after eval(x) of class cls: GESD, MTT and MOLL copy
\* the normalized scores before they sort them or delete from them
Caller_after(cls, x) ==
    IF ~Valid(x) THEN {Raw(x)}
    ELSE {LET n == normalize_new(c.h, c.r)
              w == IF cls \in {"GESD", "MTT", "MOLL"} /\ ~IsConstant(x)
                   THEN np_copy(n.h, n.r) ELSE n
          IN  w.h[1] : c \in check_array(<<Raw(x)>>, 1)}

(***************************************************************************)
(* Instances and calls.  objs holds the fields of the thresholder objects  *)
(* the client has constructed; a call of eval is one step (the whole       *)
(* handler), after which ret holds what the call returned or raised until  *)
(* the client takes it.                                                    *)
(***************************************************************************)
Ids == {1, 2}

NoScores == [set |-> FALSE, k |-> <<>>, R |-> 1]

\* the instance a constructor returns; args keeps the max_outliers argument
Obj(cls, method, mo) ==
    [cls |-> cls, method |-> method, args |-> mo, max_outliers |-> mo,
     thresh_ |-> Unset, dscores_ |-> NoScores]

NoObj == Obj("-", "-", Native)

\* dscores_ after FWFM.eval(x)
Scores(x) == [set |-> TRUE, k |-> normalize(x).k, R |-> normalize(x).R]

\* arg is the caller's array as the call leaves it
NoRet == [id |-> 0, input |-> <<>>, out |-> Raise("-"), limit |-> Unset,
          caught |-> FALSE, undef |-> FALSE, aux |-> 0, arg |-> Raw(<<>>)]

MaxCap == 2

ScenarioA == <<0, 0, 0, 0, 0, 0, 0, 0, 0, 100>>


Probes == {ScenarioA, <<0, 0, 1, 1>>, <<0, 0, 1, 2>>, <<0, 1, 3>>}

\* the arrays a client passes to the rejection tests; <<>> is rejected by
\* check_array
RejPool == Arrays(MaxLen, MaxVal) \cup Probes \cup {<<>>}

RejObjs ==
    {Obj("GESD", "-", mo) : mo \in {Native} \cup 1..MaxCap}
    \cup {Obj("MTT", "-", Native), Obj("MAD", "-", Native)}
    \cup {Obj("CHAU", m, Native) : m \in {"mean", "median", "gmean"}}

\* the call returns: the instance keeps what eval assigned
Deliver(id, x, o) ==
    /\ objs' = [objs EXCEPT ![id].max_outliers = o.cap,
                            ![id].thresh_ = IF o.wrote THEN o.thresh ELSE @]
    /\ \E a \in Caller_after(objs[id].cls, x) :
           ret' = [id |-> id, input |-> x, out |-> o.out,
                   limit |-> IF o.wrote THEN o.thresh ELSE Unset,
                   caught |-> o.caught, undef |-> o.undef, aux |-> o.aux,
                   arg |-> a]
    /\ pc' = "returned"

EvalGESD(id, x) ==
    /\ pc = "idle" /\ objs[id].cls = "GESD"
    /\ \E o \in GESD_eval(objs[id].max_outliers, x) : Deliver(id, x, o)
    /\ UNCHANGED <<rng, pool, ebSeen, frames>>

EvalMTT(id, x) ==
    /\ pc = "idle" /\ objs[id].cls = "MTT"
    /\ \E o \in MTT_eval(x) : Deliver(id, x, o)
    /\ UNCHANGED <<rng, pool, ebSeen, frames>>

EvalMAD(id, x) ==
    /\ pc = "idle" /\ objs[id].cls = "MAD"
    /\ \E o \in MAD_eval(x) : Deliver(id, x, o)
    /\ UNCHANGED <<rng, pool, ebSeen, frames>>

EvalCHAU(id, x) ==
    /\ pc = "idle" /\ objs[id].cls = "CHAU"
    /\ \E o \in CHAU_eval(objs[id].method, x) : Deliver(id, x, o)
    /\ UNCHANGED <<rng, pool, ebSeen, frames>>

\* FWFM.eval also keeps the normalized scores in dscores_
EvalFWFM(id, x) ==
    /\ pc = "idle" /\ objs[id].cls = "FWFM"
    /\ \E o \in FWFM_eval(x) :
          /\ objs' = [objs EXCEPT ![id].thresh_ = IF o.wrote THEN o.thresh ELSE @,
                                  ![id].dscores_ = IF o.wrote THEN Scores(x) ELSE @]
          /\ \E a \in Caller_after(objs[id].cls, x) :
                 ret' = [id |-> id, input |-> x, out |-> o.out,
                         limit |-> IF o.wrote THEN o.thresh ELSE Unset,
                         caught |-> o.caught, undef |-> o.undef, aux |-> o.aux,
                         arg |-> a]
          /\ pc' = "returned"
    /\ UNCHANGED <<rng, pool, ebSeen, frames>>

EvalAUCP(id, x) ==
    /\ pc = "idle" /\ objs[id].cls = "AUCP"
    /\ \E p \in AUCP_evals : p[1] = x /\ \E o \in p[2] : Deliver(id, x, o)
    /\ UNCHANGED <<rng, pool, ebSeen, frames>>

EvalMOLL(id, x) ==
    /\ pc = "idle" /\ objs[id].cls = "MOLL"
    /\ \E o \in MOLL_eval(x) : Deliver(id, x, o)
    /\ UNCHANGED <<rng, pool, ebSeen, frames>>

EvalFILTER(id, x) ==
    /\ pc = "idle" /\ objs[id].cls = "FILTER"
    /\ \E o \in FILTER_eval(objs[id].method, x) : Deliver(id, x, o)
    /\ UNCHANGED <<rng, pool, ebSeen, frames>>

EvalMETA(id, x) ==
    /\ pc = "idle" /\ objs[id].cls = "META"
    /\ \E o \in META_eval(x) : Deliver(id, x, o)
    /\ UNCHANGED <<rng, pool, ebSeen, frames>>

\* a backend built without random_state draws from the process-wide
\* generator: one draw stands for those of a fit
EvalCLUST(id, x) ==
    /\ pc = "idle" /\ objs[id].cls = "CLUST"
    /\ \E o \in CLUST_eval(objs[id].method, x) : Deliver(id, x, o)
    /\ rng' = IF UsesGlobalRng(objs[id].method) /\ Valid(x) /\ ~IsConstant(x)
              THEN Uniform(rng, 1).next ELSE rng
    /\ ebSeen' = IF ebSeen = 1 THEN 2 ELSE ebSeen
    /\ UNCHANGED <<pool, frames>>

\* ebSeen counts how far the calls have come through: an EB call (1), a
\* CLUST call (2), an EB call again (3)
EvalEB(id, x) ==
    /\ pc = "idle" /\ objs[id].cls = "EB"
    /\ LET r == EB_eval(rng, x)
       IN  /\ Deliver(id, x, r.o)
           /\ rng' = r.g
    /\ ebSeen' = IF ebSeen = 0 THEN 1 ELSE IF ebSeen = 2 THEN 3 ELSE ebSeen
    /\ UNCHANGED <<pool, frames>>

\* the client takes the result
Return ==
    /\ pc = "returned"
    /\ pc' = "idle"
    /\ ret' = NoRet
    /\ UNCHANGED <<objs, rng, pool, ebSeen, frames>>

RngInit == [seed |-> 0, pos |-> 0]

RejInit ==
    /\ objs \in {[i \in Ids |-> IF i = 1 THEN o ELSE NoObj] : o \in RejObjs}
    /\ pool = RejPool
    /\ rng = RngInit
    /\ pc = "idle"
    /\ ret = NoRet
    /\ ebSeen = 0
    /\ frames = <<>>

RejNext ==
    \/ \E id \in Ids, x \in pool : EvalGESD(id, x)
    \/ \E id \in Ids, x \in pool : EvalMTT(id, x)
    \/ \E id \in Ids, x \in pool : EvalMAD(id, x)
    \/ \E id \in Ids, x \in pool : EvalCHAU(id, x)
    \/ Return

RejSpec == RejInit /\ [][RejNext]_vars

(***************************************************************************)
(* One instance of any class, called over and over.                        *)
(***************************************************************************)

AllObjs ==
    RejObjs
    \cup {Obj("CLUST", m, Native) : m \in ClustMethods}
    \cup {Obj("FILTER", m, Native) : m \in FilterMethods}
    \cup {Obj("META", m, Native) : m \in {"LIN", "GNB"}}
    \cup {Obj(c, "-", Native) : c \in {"EB", "FWFM", "AUCP", "MOLL"}}

Init ==
    /\ objs \in {[i \in Ids |-> IF i = 1 THEN o ELSE NoObj] : o \in AllObjs}
    /\ pool = OpqPool
    /\ rng = RngInit
    /\ pc = "idle"
    /\ ret = NoRet
    /\ ebSeen = 0
    /\ frames = <<>>

Next ==
    \/ \E id \in Ids, x \in pool : EvalGESD(id, x)
    \/ \E id \in Ids, x \in pool : EvalMTT(id, x)
    \/ \E id \in Ids, x \in pool : EvalMAD(id, x)
    \/ \E id \in Ids, x \in pool : EvalCHAU(id, x)
    \/ \E id \in Ids, x \in pool : EvalCLUST(id, x)
    \/ \E id \in Ids, x \in pool : EvalMETA(id, x)
    \/ \E id \in Ids, x \in pool : EvalEB(id, x)
    \/ \E id \in Ids, x \in pool : EvalFILTER(id, x)
    \/ \E id \in Ids, x \in pool : EvalFWFM(id, x)
    \/ \E id \in Ids, x \in pool : EvalAUCP(id, x)
    \/ \E id \in Ids, x \in pool : EvalMOLL(id, x)
    \/ Return

Spec == Init /\ [][Next]_vars

(***************************************************************************)
(* Two instances, EB and a second EB or a CLUST on KMeans, sharing the     *)
(* process-wide generator.                                                 *)
(***************************************************************************)
EBPool == OpqPool \cup Probes

EBInit ==
    /\ objs \in {[i \in Ids |-> IF i = 1 THEN Obj("EB", "-", Native) ELSE o] :
                  o \in {Obj("EB", "-", Native), Obj("CLUST", "kmeans", Native)}}
    /\ pool = EBPool
    /\ rng = RngInit
    /\ pc = "idle"
    /\ ret = NoRet
    /\ ebSeen = 0
    /\ frames = <<>>

EBNext ==
    \/ \E id \in Ids, x \in pool : EvalEB(id, x)
    \/ \E id \in Ids, x \in pool : EvalCLUST(id, x)
    \/ Return

EBSpec == EBInit /\ [][EBNext]_vars

(***************************************************************************)
(* Two threads, each calling eval once on one shared instance.  A step is  *)
(* the stretch of eval between two accesses to what the threads share: the *)
(* instance's fields and the process-wide generator.                       *)
(***************************************************************************)
Threads == {1, 2}

Frame(at, x, limit, out) == [at |-> at, x |-> x, limit |-> limit, out |-> out]

ConcPool == OpqPool \cup Probes

ConcObjs ==
    {Obj("GESD", "-", mo) : mo \in {Native} \cup 1..MaxCap}
    \cup {Obj("MAD", "-", Native), Obj("EB", "-", Native)}

\* the frame, with the rest of the state left as it is
Step(t, f) ==
    /\ frames' = [frames EXCEPT ![t] = f]
    /\ UNCHANGED <<pc, ret, pool, ebSeen>>

\* eval is entered: check_array and normalize
Call(t, x) ==
    /\ pc = "threads" /\ frames[t].at = "ready"
    /\ IF ~Valid(x) THEN Step(t, Frame("done", x, Unset, Raise("ValueError")))
       ELSE IF normalize(x).err
            THEN Step(t, Frame("done", x, Unset, Raise("DegenerateInputError")))
            ELSE Step(t, Frame("entered", x, Unset, Raise("-")))
    /\ UNCHANGED <<objs, rng>>

\* GESD.eval: the 'native' test and the assignment to self.max_outliers
CapInit(t) ==
    /\ pc = "threads" /\ frames[t].at = "entered" /\ objs[1].cls = "GESD"
    /\ objs' = [objs EXCEPT ![1].max_outliers = GESD_cap(@, Len(frames[t].x))]
    /\ Step(t, [frames[t] EXCEPT !.at = "capped"])
    /\ UNCHANGED rng

\* GESD.eval: range(self.max_outliers) is read, and the loop run
GesdLoop(t) ==
    /\ pc = "threads" /\ frames[t].at = "capped"
    /\ LET dec == normalize(frames[t].x)
       IN  \E r \in GESD_loop(dec.k, dec.R, Limit11, objs[1].max_outliers) :
               IF r.ok THEN Step(t, [frames[t] EXCEPT !.at = "computed", !.limit = r.limit])
               ELSE Step(t, [frames[t] EXCEPT !.at = "done", !.out = Raise("ZeroDivisionError")])
    /\ UNCHANGED <<objs, rng>>

\* MAD.eval up to the assignment to self.thresh_
MadLimit(t) ==
    /\ pc = "threads" /\ frames[t].at = "entered" /\ objs[1].cls = "MAD"
    /\ Step(t, [frames[t] EXCEPT !.at = "computed",
                                 !.limit = MAD_limit(normalize(frames[t].x))])
    /\ UNCHANGED <<objs, rng>>

\* EB.eval: np.random.seed(1234)
Seed(t) ==
    /\ pc = "threads" /\ frames[t].at = "entered" /\ objs[1].cls = "EB"
    /\ rng' = Seeded(EBSeed)
    /\ Step(t, [frames[t] EXCEPT !.at = "seeded"])
    /\ UNCHANGED objs

\* EB.eval: np.random.uniform(0, 1, 5000), and the rest up to the
\* assignment to self.thresh_
Draw(t) ==
    /\ pc = "threads" /\ frames[t].at = "seeded"
    /\ LET u == Uniform(rng, NDraws)
           o == EB_fit(normalize(frames[t].x), u.vals)
       IN  /\ rng' = u.next
           /\ IF o.wrote
              THEN Step(t, [frames[t] EXCEPT !.at = "computed", !.limit = o.thresh])
              ELSE Step(t, [frames[t] EXCEPT !.at = "done", !.out = o.out])
    /\ UNCHANGED objs

\* self.thresh_ = limit; return cut(decision, limit)
Store(t) ==
    /\ pc = "threads" /\ frames[t].at = "computed"
    /\ objs' = [objs EXCEPT ![1].thresh_ = frames[t].limit]
    /\ Step(t, [frames[t] EXCEPT !.at = "done",
                                 !.out = Labels(cut(normalize(frames[t].x), frames[t].limit))])
    /\ UNCHANGED rng

ConcInit ==
    /\ objs \in {[i \in Ids |-> IF i = 1 THEN o ELSE NoObj] : o \in ConcObjs}
    /\ pool = ConcPool
    /\ rng = RngInit
    /\ pc = "threads"
    /\ ret = NoRet
    /\ ebSeen = 0
    /\ frames = [t \in Threads |-> Frame("ready", <<>>, Unset, Raise("-"))]

ConcNext ==
    \/ \E t \in Threads, x \in pool : Call(t, x)
    \/ \E t \in Threads : CapInit(t)
    \/ \E t \in Threads : GesdLoop(t)
    \/ \E t \in Threads : MadLimit(t)
    \/ \E t \in Threads : Seed(t)
    \/ \E t \in Threads : Draw(t)
    \/ \E t \in Threads : Store(t)

ConcSpec == ConcInit /\ [][ConcNext]_vars

(***************************************************************************)
(* cut on its own: a normalized array is cut at one limit and then at      *)
(* another, as the loops of EB.eval do; frames keeps the calls made.       *)
(***************************************************************************)
\* the limits tried: the a*(1-e) of EB's scan, the library grid, and 1.1
CutLimits ==
    {Ecc(i, NEcc - 1) : i \in 0..(NEcc - 1)} \cup {Rat(j, Grid) : j \in 0..Grid}
    \cup {Limit11}

\* the arrays normalize accepts
CutPool == {x \in OpqPool \cup Probes : Valid(x) /\ ~IsConstant(x)}

\* a <= b for rational limits
LeqR(a, b) == a.pn * b.pd <= b.pn * a.pd

\* lb = cut(decision, limit)
CutCall(x, l) ==
    /\ pc = "idle" /\ Len(frames) < 2
    /\ IF frames = <<>> THEN TRUE ELSE frames[1].x = x
    /\ frames' = Append(frames, [x |-> x, limit |-> l, labels |-> cut(normalize(x), l)])
    /\ UNCHANGED <<objs, rng, pc, ret, pool, ebSeen>>

\* the caller drops the label vectors and starts over
CutReset ==
    /\ pc = "idle" /\ frames # <<>>
    /\ frames' = <<>>
    /\ UNCHANGED <<objs, rng, pc, ret, pool, ebSeen>>

CutInit ==
    /\ objs = [i \in Ids |-> NoObj]
    /\ pool = CutPool
    /\ rng = RngInit
    /\ pc = "idle"
    /\ ret = NoRet
    /\ ebSeen = 0
    /\ frames = <<>>

CutNext ==
    \/ \E x \in pool, l \in CutLimits : CutCall(x, l)
    \/ CutReset

CutSpec == CutInit /\ [][CutNext]_vars

(***************************************************************************)
(* GESD.eval, one iteration of its for loop at a time.  frames is the      *)
(* frame of the one call in progress: the working array arr (as k/R), the  *)
(* limit, the number i of iterations done.  Kept beside them for the       *)
(* properties: the limit before the last iteration (prev), the values the  *)
(* test confirmed (conf), and the largest deviation left in arr by the     *)
(* last removal against that of the element removed (kept <= gone).        *)
(***************************************************************************)
GesdObjs == {Obj("GESD", "-", mo) : mo \in {Native} \cup 1..MaxLen}

GesdPool == Arrays(MaxLen, MaxVal) \cup Probes \cup {<<>>}

GesdIdle == [at |-> "idle", x |-> <<>>, arr |-> <<>>, R |-> 1, limit |-> Limit11,
             prev |-> Limit11, i |-> 0, conf |-> {}, out |-> Raise("-")]

\* lines 57-66: check_array, normalize, arr, limit, and the 'native' test
GesdEnter(x) ==
    /\ frames.at = "idle"
    /\ IF ~Valid(x)
       THEN /\ frames' = [GesdIdle EXCEPT !.at = "done", !.x = x,
                                          !.out = Raise("ValueError")]
            /\ objs' = objs
       ELSE IF normalize(x).err
       THEN /\ frames' = [GesdIdle EXCEPT !.at = "done", !.x = x,
                                          !.out = Raise("DegenerateInputError")]
            /\ objs' = objs
       ELSE /\ frames' = [GesdIdle EXCEPT !.at = "loop", !.x = x,
                                          !.arr = normalize(x).k, !.R = normalize(x).R]
            /\ objs' = [objs EXCEPT ![1].max_outliers = GESD_cap(@, Len(x))]
    /\ UNCHANGED <<rng, pc, ret, pool, ebSeen>>

\* lines 68-74: one pass of the loop body
GesdIter ==
    /\ frames.at = "loop" /\ frames.i < objs[1].max_outliers
    /\ IF frames.arr = <<>>
       THEN frames' = [frames EXCEPT !.at = "done", !.out = Raise("ZeroDivisionError")]
       ELSE \E m \in ArgMaxDev(frames.arr) :
               frames' = [frames EXCEPT
                   !.arr = Delete(@, m),
                   !.prev = frames.limit,
                   !.limit = GESD_step(frames.arr, frames.R, @, m),
                   !.i = @ + 1,
                   !.conf = IF GsExceeds(grubbs_stat(frames.arr, m),
                                         calc_crit(Len(frames.arr)))
                            THEN @ \cup {frames.arr[m]} ELSE @]
    /\ UNCHANGED <<objs, rng, pc, ret, pool, ebSeen>>

\* lines 76-78: the loop is over, thresh_ is assigned and the labels returned
GesdExit ==
    /\ frames.at = "loop" /\ frames.i >= objs[1].max_outliers
    /\ frames' = [frames EXCEPT
           !.at = "done",
           !.out = Labels(cut(normalize(frames.x), frames.limit))]
    /\ objs' = [objs EXCEPT ![1].thresh_ = frames.limit]
    /\ UNCHANGED <<rng, pc, ret, pool, ebSeen>>

\* the caller takes the result; the instance is built anew
GesdReturn ==
    /\ frames.at = "done"
    /\ frames' = GesdIdle
    /\ objs' = [objs EXCEPT ![1] = Obj("GESD", "-", objs[1].args)]
    /\ UNCHANGED <<rng, pc, ret, pool, ebSeen>>

GesdInit ==
    /\ objs \in {[i \in Ids |-> IF i = 1 THEN o ELSE NoObj] : o \in GesdObjs}
    /\ pool = GesdPool
    /\ rng = RngInit
    /\ pc = "idle"
    /\ ret = NoRet
    /\ ebSeen = 0
    /\ frames = GesdIdle

GesdNext ==
    \/ \E x \in pool : GesdEnter(x)
    \/ GesdIter
    \/ GesdExit
    \/ GesdReturn

GesdSpec == GesdInit /\ [][GesdNext]_vars

(***************************************************************************)
(* MTT.eval, one pass of its while loop at a time.  frames is the frame of *)
(* the one call in progress: the sorted working array arr (as k/R), the    *)
(* limit, and, kept for the properties, the number of removals made.       *)
(***************************************************************************)
\* arrays of up to MaxLen + 1 scores
MttPool == Arrays(MaxLen, MaxVal) \cup (Probes \ {ScenarioA}) \cup {<<>>}

MttIdle == [at |-> "idle", x |-> <<>>, arr |-> <<>>, R |-> 1, limit |-> Limit11,
            removed |-> 0, out |-> Raise("-")]

\* lines 68-74: check_array, normalize, the sorted copy, and limit
MttEnter(x) ==
    /\ frames.at = "idle"
    /\ frames' =
           IF ~Valid(x)
           THEN [MttIdle EXCEPT !.at = "done", !.x = x, !.out = Raise("ValueError")]
           ELSE IF normalize(x).err
           THEN [MttIdle EXCEPT !.at = "done", !.x = x,
                                !.out = Raise("DegenerateInputError")]
           ELSE [MttIdle EXCEPT !.at = "loop", !.x = x,
                                !.arr = Sort(normalize(x).k), !.R = normalize(x).R]
    /\ UNCHANGED <<objs, rng, pc, ret, pool, ebSeen>>

\* lines 76-89: one pass of the loop body; arr[-1] of an empty array raises
MttIter ==
    /\ frames.at = "loop"
    /\ frames' =
           IF frames.arr = <<>>
           THEN [frames EXCEPT !.at = "done", !.out = Raise("IndexError")]
           ELSE IF MTT_rejects(frames.arr)
           THEN [frames EXCEPT !.limit = MTT_limit(frames.arr, frames.R),
                               !.arr = Delete(@, Len(@)),
                               !.removed = @ + 1]
           ELSE [frames EXCEPT !.at = "exit"]
    /\ UNCHANGED <<objs, rng, pc, ret, pool, ebSeen>>

\* lines 91-92: thresh_ is assigned and the labels returned
MttExit ==
    /\ frames.at = "exit"
    /\ frames' = [frames EXCEPT
           !.at = "done", !.out = Labels(cut(normalize(frames.x), frames.limit))]
    /\ objs' = [objs EXCEPT ![1].thresh_ = frames.limit]
    /\ UNCHANGED <<rng, pc, ret, pool, ebSeen>>

\* the caller takes the result; the instance is built anew
MttReturn ==
    /\ frames.at = "done"
    /\ frames' = MttIdle
    /\ objs' = [objs EXCEPT ![1] = Obj("MTT", "-", Native)]
    /\ UNCHANGED <<rng, pc, ret, pool, ebSeen>>

MttInit ==
    /\ objs = [i \in Ids |-> IF i = 1 THEN Obj("MTT", "-", Native) ELSE NoObj]
    /\ pool = MttPool
    /\ rng = RngInit
    /\ pc = "idle"
    /\ ret = NoRet
    /\ ebSeen = 0
    /\ frames = MttIdle

MttNext ==
    \/ \E x \in pool : MttEnter(x)
    \/ MttIter
    \/ MttExit
    \/ MttReturn

\* a call that has been entered keeps running: nothing else is scheduled
MttSpec ==
    MttInit /\ [][MttNext]_vars /\ WF_vars(MttIter) /\ WF_vars(MttExit)

(***************************************************************************)
(* Properties.                                                             *)
(***************************************************************************)
\* a call has returned to the client, which has not yet taken the result
Returned == pc = "returned"

\* the class of the instance the returned call was made on
RetCls == objs[ret.id].cls

\* C1: what eval returns for an array of n >= 2 scores is a vector of
\* exactly n labels, each 0 or 1
C1_LabelVector ==
    (Returned /\ Len(ret.input) >= 2 /\ ret.out.kind # "error")
        => /\ ret.out.kind = "labels"
           /\ Len(ret.out.labels) = Len(ret.input)
           /\ \A i \in DOMAIN ret.out.labels : ret.out.labels[i] \in {0, 1}

\* labels with the last of ten scores flagged
LastOnly == [i \in 1..10 |-> IF i = 10 THEN 1 ELSE 0]

\* C2: on the scores [0,0,0,0,0,0,0,0,0,100], MAD, GESD with default
\* arguments and MTT each flag index 9 and nothing else
C2_ScenarioA ==
    (/\ Returned /\ ret.input = ScenarioA
     /\ RetCls \in {"MAD", "GESD", "MTT"}
     /\ objs[ret.id].args = Native)
        => ret.out = Labels(LastOnly)

\* C3: on a constant array every procedure ends in the degenerate-input
\* error: no labels are returned and the call writes no threshold
C3_Degenerate ==
    (Returned /\ Valid(ret.input) /\ IsConstant(ret.input))
        => /\ ret.out = Raise("DegenerateInputError")
           /\ ret.limit = Unset
           /\ objs[ret.id].thresh_ # NanT

\* a constant array of the greatest length is refused by an instance that
\* still holds the threshold of an earlier call
C3_Witness ==
    /\ Returned /\ Len(ret.input) = OpqLen /\ IsConstant(ret.input)
    /\ ret.out = Raise("DegenerateInputError")
    /\ objs[ret.id].thresh_ \notin {Unset, NoneT}

\* C4: GESD flags at most max_outliers scores, half the length of the
\* input when max_outliers is left at its default
C4_GesdCap ==
    (Returned /\ RetCls = "GESD" /\ ret.out.kind = "labels")
        => Count1(ret.out.labels) <= GESD_cap(objs[ret.id].args, Len(ret.input))

\* eval of a freshly constructed instance with the constructor arguments of o
Fresh(o, x) ==
    CASE o.cls = "GESD" -> GESD_eval(o.args, x)
      [] o.cls = "MTT"  -> MTT_eval(x)
      [] o.cls = "MAD"  -> MAD_eval(x)
      [] o.cls = "CHAU" -> CHAU_eval(o.method, x)

\* C5: whatever was evaluated before, a call returns the labels and the
\* threshold a freshly constructed instance returns for the same input
C5_Stateless ==
    Returned =>
        \E f \in Fresh(objs[ret.id], ret.input) :
            /\ f.out = ret.out
            /\ ret.limit = IF f.wrote THEN f.thresh ELSE Unset

\* C6: CLUST never labels more scores 1 than 0
C6_Orientation ==
    (Returned /\ RetCls = "CLUST" /\ ret.out.kind = "labels")
        => 2 * Count1(ret.out.labels) <= Len(ret.out.labels)

\* the array a procedure cuts: the probabilities for CHAU, else the
\* normalized scores
Cut_w(o, x) ==
    IF o.cls = "CHAU" THEN CHAU_prob(o.method, normalize(x)) ELSE normalize(x)

\* C7: after a successful eval of a procedure with a threshold, the labels
\* returned are cut(w, thresh_)
C7_ThreshIsCut ==
    (Returned /\ ret.out.kind = "labels" /\ objs[ret.id].thresh_ # NoneT)
        => /\ objs[ret.id].thresh_ = ret.limit
           /\ ret.out.labels = cut(Cut_w(objs[ret.id], ret.input), objs[ret.id].thresh_)

\* C8: every EB.eval call, on either instance and after any calls, returns
\* the labels and the threshold that the first call of a process returns
\* for the same input
C8_Deterministic ==
    (Returned /\ RetCls = "EB")
        => LET first == EB_eval(RngInit, ret.input).o
           IN  /\ ret.out = first.out
               /\ ret.limit = IF first.wrote THEN first.thresh ELSE Unset

\* EB has labelled an array, a CLUST call on KMeans has drawn from the
\* generator, and EB has labelled an array again
C8_Witness ==
    /\ Returned /\ RetCls = "EB" /\ ebSeen = 3
    /\ ret.out.kind = "labels" /\ Count1(ret.out.labels) > 0
    /\ objs[2].thresh_ = NoneT

\* C9: a call in which an exception was caught, or a statistic was NaN,
\* ends in an error
C9_NoSwallow ==
    (Returned /\ (ret.caught \/ ret.undef)) => ret.out.kind = "error"

\* the results of eval, run alone on a fresh instance built like o
Alone(o, x) ==
    CASE o.cls = "GESD" -> {f.out : f \in GESD_eval(o.args, x)}
      [] o.cls = "MAD"  -> {f.out : f \in MAD_eval(x)}
      [] o.cls = "EB"   -> {EB_eval(RngInit, x).o.out}

\* C10: of two interleaved calls each returns what it returns alone on a
\* fresh instance, and thresh_ ends as the threshold of one of them
C10_Interleaved ==
    /\ \A t \in Threads :
           (pc = "threads" /\ frames[t].at = "done")
               => frames[t].out \in Alone(objs[1], frames[t].x)
    /\ (pc = "threads" /\ \A t \in Threads : frames[t].at = "done")
           => objs[1].thresh_ \in {Unset} \cup {frames[t].limit : t \in Threads}

\* C11: no eval call changes the process-wide random generator: its state
\* when the call returns is its state when the call was made
C11_NoSharedWrite ==
    [][(pc = "idle" /\ pc' = "returned") => rng' = rng]_vars

\* C12: CHAU labels a score 1 exactly when its probability is below the
\* criterion 1/|norm.ppf(1/(4n))|
C12_ChauBelow ==
    (Returned /\ RetCls = "CHAU" /\ ret.out.kind = "labels")
        => LET prob == CHAU_prob(objs[ret.id].method, normalize(ret.input))
           IN  \A i \in DOMAIN prob.k :
                   ret.out.labels[i] = 1
                       <=> Lt(prob.k[i], prob.R, Rat(criterion(Len(ret.input)), 10000))

\* C13: of two cuts of one array, the one at the lower limit labels 1 every
\* score the other labels 1, so it labels at least as many; a score equal
\* to the limit is labelled 0
C13_CutMonotonic ==
    /\ \A a, b \in DOMAIN frames :
           LeqR(frames[a].limit, frames[b].limit)
               => /\ \A i \in DOMAIN frames[b].labels :
                         frames[b].labels[i] = 1 => frames[a].labels[i] = 1
                  /\ Count1(frames[b].labels) <= Count1(frames[a].labels)
    /\ \A a \in DOMAIN frames :
           LET dec == normalize(frames[a].x)
           IN  \A i \in DOMAIN dec.k :
                   dec.k[i] * frames[a].limit.pd = frames[a].limit.pn * dec.R
                       => frames[a].labels[i] = 0

\* one array cut at two limits: at the higher, which one of its scores
\* equals, some scores are labelled 1, and more are at the lower
C13_Witness ==
    /\ Len(frames) = 2
    /\ ~LeqR(frames[2].limit, frames[1].limit)
    /\ Count1(frames[2].labels) < Count1(frames[1].labels)
    /\ Count1(frames[2].labels) > 0
    /\ LET dec == normalize(frames[2].x)
       IN  \E i \in DOMAIN dec.k :
               dec.k[i] * frames[2].limit.pd = frames[2].limit.pn * dec.R

\* C14: when a call of any procedure has returned or raised, the caller's array holds the
\* elements it held when the call was made, in the same order
C14_InputUnchanged ==
    Returned => ret.arg = Raw(ret.input)

\* GESD has deleted from its working array, or MTT or MOLL has sorted one
\* that was not in order, and has returned labels
C14_Witness ==
    /\ Returned /\ RetCls \in {"GESD", "MTT", "MOLL"} /\ ret.out.kind = "labels"
    /\ \E i, j \in DOMAIN ret.input : i < j /\ ret.input[i] > ret.input[j]
    /\ ret.arg = Raw(ret.input)

\* C15: a call whose input check_array rejects raises the validation error,
\* returns no labels, and leaves thresh_, dscores_ and max_outliers of
\* every instance as they were
C15_ValidationFirst ==
    [][(pc = "idle" /\ pc' = "returned" /\ ~Valid(ret'.input))
          => /\ ret'.out = Raise("ValueError")
             /\ ret'.limit = Unset
             /\ objs' = objs]_vars

\* an instance that holds the threshold of an earlier call has refused an
\* empty array
C15_Witness ==
    /\ Returned /\ ~Valid(ret.input) /\ ret.out = Raise("ValueError")
    /\ objs[ret.id].thresh_ # Unset

\* the median inlier count of EB's first phase, and the distance from it of
\* the inlier count at the i-th eccentricity of the second
EB_med(dec) ==
    LET rnd == Uniform(Seeded(EBSeed), NDraws).vals
    IN  RoundMedian([i \in DOMAIN rnd |-> Inliers(dec, Ecc(rnd[i], 1000))])

EB_dist(dec, i) == Abs(EB_med(dec) - Inliers(dec, Ecc(i, NEcc - 1)))

AUCP_hits(dec, val) ==
    {i \in 1..Len(val.k) :
        auc(val.k, i) * 2 * Len(dec.k) * dec.R < AUCP_perc(dec) * auc(val.k, 1)}

MinOf(S) == CHOOSE v \in S : \A w \in S : v <= w

\* C18: a GESD call on a valid, non-constant array runs max_outliers
\* iterations and returns labels; each iteration shortens the working array
\* by one and never raises the limit; the final threshold is the least
\* confirmed value, or 1.1 with every label 0 when none was confirmed
C18_GesdLoop ==
    /\ frames.at \in {"loop", "done"} /\ frames.out.kind # "error"
           => /\ Len(frames.arr) = Len(frames.x) - frames.i
              /\ LeqR(frames.limit, frames.prev)
    /\ (frames.at = "done" /\ Valid(frames.x) /\ ~IsConstant(frames.x))
           => /\ frames.out.kind = "labels"
              /\ frames.i = GESD_cap(objs[1].args, Len(frames.x))
              /\ frames.limit =
                     IF frames.conf = {} THEN Limit11 ELSE Rat(MinOf(frames.conf), frames.R)
              /\ frames.conf = {} => Count1(frames.out.labels) = 0

\* while an MTT call runs: the working array is the sorted scores less the
\* largest ones removed so far, each of which was rejected; it never holds
\* fewer than 2 elements, so at most n-2 were removed; and a call that has
\* left the loop left it at an element that was not rejected
MttLoopInv ==
    frames.at \in {"loop", "exit", "done"} /\ frames.out.kind # "error"
        => LET n == Len(frames.x)
               sorted == Sort(normalize(frames.x).k)
           IN  /\ n >= 2
               /\ frames.arr = SubSeq(sorted, 1, n - frames.removed)
               /\ Len(frames.arr) >= 2
               /\ frames.removed <= n - 2
               /\ \A j \in (Len(frames.arr) + 1)..n : MTT_rejects(SubSeq(sorted, 1, j))
               /\ frames.at # "loop" => ~MTT_rejects(frames.arr)
               /\ frames.out.err # "IndexError"

\* C19: the rejection loop of MTT terminates on every array it is run on,
\* removing the largest remaining element at each pass until the first one
\* that is not rejected, at most n-2 in all, and never working on an empty
\* array
C19_MttTerminates ==
    /\ []MttLoopInv
    /\ [](frames.out.err # "IndexError")
    /\ (frames.at = "loop") ~> (frames.at = "done" /\ frames.out.kind = "labels")

\* an MTT call has returned labels after removing all but two of the scores
C19_Witness ==
    /\ frames.at = "done" /\ frames.out.kind = "labels"
    /\ frames.removed >= 1 /\ frames.removed = Len(frames.x) - 2
    /\ Count1(frames.out.labels) = 0

\* C20: on every valid, non-constant array EB returns labels and stores the
\* threshold it cut at: every inlier count of the scan is at least 1, and
\* some eccentricity is strictly closer to the median count than the
\* initial kept count 0, so limit is bound when the scan ends
C20_EbLimitBound ==
    (Returned /\ RetCls = "EB" /\ Valid(ret.input) /\ ~IsConstant(ret.input))
        => LET dec == normalize(ret.input)
           IN  /\ \A i \in 0..(NEcc - 1) : Inliers(dec, Ecc(i, NEcc - 1)) >= 1
               /\ \E i \in 0..(NEcc - 1) : EB_dist(dec, i) < EB_med(dec)
               /\ ret.out.kind = "labels"
               /\ ret.limit # Unset
               /\ objs[ret.id].thresh_ = ret.limit

\* EB has returned labels for an array on which the first eccentricity of
\* the scan is no closer to the median count than the initial kept count
C20_Witness ==
    /\ Returned /\ RetCls = "EB" /\ ret.out.kind = "labels"
    /\ Len(ret.input) = OpqLen
    /\ LET dec == normalize(ret.input)
       IN  EB_dist(dec, 0) >= EB_med(dec)

\* C21: the scores MTT labels 1 are those strictly greater than the least
\* value its loop rejected: each is one of the rejected scores, a score
\* equal to that value is labelled 0, and of k >= 1 rejected scores at
\* most k-1 are labelled 1; with none rejected no score is labelled 1
C21_MttFlagged ==
    (frames.at = "done" /\ frames.out.kind = "labels")
        => LET dec == normalize(frames.x)
               n == Len(frames.x)
               k == frames.removed
               sorted == Sort(dec.k)
               labels == frames.out.labels
           IN  IF k = 0 THEN Count1(labels) = 0
               ELSE /\ \A i \in DOMAIN labels :
                         labels[i] = 1 <=> dec.k[i] > sorted[n - k + 1]
                    /\ \A i \in DOMAIN labels :
                         labels[i] = 1 => \E j \in (n - k + 1)..n : sorted[j] = dec.k[i]
                    /\ Count1(labels) <= k - 1

\* MTT has rejected two scores and labelled one of them 1
C21_Witness ==
    /\ frames.at = "done" /\ frames.out.kind = "labels"
    /\ frames.removed >= 2
    /\ Count1(frames.out.labels) = frames.removed - 1

\* the procedures whose threshold lies in the normalized score space
ScoreSpace == {"AUCP", "EB", "FWFM", "GESD", "MAD", "MTT"}

====
